---- MODULE Spec2Model ----
(***************************************************************************)
(* otp-secure-drop: the encrypt-upload and verify-and-decrypt edge         *)
(* functions, the owner's soft delete, and the store they share (the files *)
(* table, the access_logs table, the profiles row, the encrypted-files     *)
(* bucket).  Every await of a handler on the store is one step; the local  *)
(* code that follows an await belongs to the step of that await, except    *)
(* where it reads the clock.                                               *)
(***************************************************************************)
EXTENDS Integers, Sequences, FiniteSets, Bags, TLC

\* ---------------------------------------------------------------- bounds
\* The clock runs over 0..MaxTime.
MaxTime == 2
\* How many rows verify-and-decrypt may add to access_logs in one behaviour
\* of Spec: no request is accepted that could add one more.
MaxAccessLogs == 5
\* The same, in one behaviour of FaultSpec.
MaxFaultLogs == 2
\* How many storage faults (corruption, loss) happen in one behaviour of
\* FaultSpec.
MaxFaults == 1
\* How many rows verify-and-decrypt may add to access_logs in one behaviour
\* of DeploySpec.
MaxDeployLogs == 1
\* The same, in one behaviour of InfoSpec.
MaxInfoLogs == 1
\* The same, in one behaviour of AnyFileSpec.
MaxAnyFileLogs == 3
\* The same, in one behaviour of RejectSpec.
MaxRejectLogs == 2
\* The same, in one behaviour of LiveSpec.
MaxLiveLogs == 2
\* How many of the smallest and of the largest values of Math.random() are
\* tried in OtpSpec.
RandomEdge == 50

\* ------------------------------------------------------ program constants
\* files.max_access_attempts INTEGER DEFAULT 3
DefaultMaxAccessAttempts == 3
\* PBKDF2 iterations, the same literal at wrap and at unwrap
Iterations == 100000

\* Math.random() returns k / RandomResolution for a k in
\* 0 .. RandomResolution - 1: a value in [0, 1), on a grid fine enough for
\* every OTP to come out.
RandomResolution == 1800000

\* ------------------------------------------------------------ small sets
FileIds == {"f1"}
UserId == "u1"
Slots == {"r1", "r2"}
Payloads == {"hello test"}
OtpSpace == {"100000", "999999"}
Validities == {1}
FileSizes == {10}

Null == "null"
NoFile == [id |-> Null]
OperationError == "OperationError"

\* ------------------------------------------------------- CryptoEnvelope
\* crypto.subtle.digest("SHA-256", bytes), rendered as lowercase hex;
\* collision-free.
HashSha256Hex(bytes) == <<"sha256", bytes>>

\* importKey + deriveKey(PBKDF2, salt, 100000, SHA-256) -> AES-GCM 256 key
DeriveKek(otp, salt) == [pbkdf2 |-> otp, salt |-> salt, iterations |-> Iterations]

\* AES-GCM: the ciphertext carries its tag; intact is FALSE once a bit of
\* the stored bytes was flipped.
AesGcmEncrypt(key, iv, data) == [key |-> key, iv |-> iv, data |-> data, intact |-> TRUE]

\* Mutant of AesGcmDecrypt: the tag is not verified.
AesGcmDecryptNoTag(key, iv, ct) ==
  IF ct.key = key /\ ct.iv = iv THEN ct.data ELSE "OperationError"

\* AES-GCM decryption fails closed (throws OperationError) on a wrong key,
\* a wrong nonce or a failed tag.
AesGcmDecrypt(key, iv, ct) ==
  IF ct.intact /\ ct.key = key /\ ct.iv = iv THEN ct.data ELSE OperationError

\* A file of more bytes than the engine takes arguments in one call (the
\* upload page accepts files up to 100 MB).
LargeFile == "large file"

\* String.fromCharCode(...bytes) passes every byte as an argument of one
\* call: over the engine's limit it throws this RangeError.
RangeError == "Maximum call stack size exceeded"

SpreadOverflows(bytes) == bytes = LargeFile

\* btoa(String.fromCharCode(...bytes)) and Uint8Array.from(atob(s), ...)
Btoa(bytes) == <<"b64", bytes>>
Atob(s) == s[2]

\* crypto.getRandomValues / generateKey / randomUUID: fresh per upload, so a
\* value is named after the upload's file id.
FreshAesKey(fileId) == "dek-" \o fileId
FreshSalt(fileId) == "salt-" \o fileId
FreshFileIv(fileId) == "fileIv-" \o fileId
FreshKeyIv(fileId) == "keyIv-" \o fileId

EncryptedFileName(userId, fileId) == userId \o "/" \o fileId

Paths == {EncryptedFileName(UserId, f) : f \in FileIds}
NoBlob == [key |-> Null, iv |-> Null, data |-> Null, intact |-> FALSE]

VARIABLES
  files,          \* public.files: file id -> row, NoFile when there is none
  blobs,          \* the encrypted-files bucket: path -> ciphertext
  access_logs,    \* public.access_logs: a bag of rows
  storage_used,   \* profiles.storage_used of the owner
  emails,         \* send-otp-email invocations issued
  now,            \* the clock
  req,            \* verify-and-decrypt: one record per request slot
  up,             \* encrypt-upload: the upload in progress
  peer,           \* encrypt-upload: a second invocation, waiting at an await
  logLimit,       \* the bound on the rows verify-and-decrypt adds; never changes
  info,           \* get-file-info: the last request and its response
  env,            \* the environment of the edge functions (Deno.env); never changes
  settled,        \* send-otp-email invocations that have returned, with their outcome
  faults,         \* storage faults so far
  everExhausted   \* history: the files whose access_count has reached the bound

vars == <<files, blobs, access_logs, storage_used, emails, now, req, up, peer, logLimit, info, env, settled,
          faults, everExhausted>>

NoResponse == [status |-> 0, error |-> Null, fileData |-> <<"b64", Null>>,
               filename |-> Null, mimeType |-> Null]

ErrorResponse(message) == [NoResponse EXCEPT !.status = 400, !.error = message]

IdleRequest == [pc |-> "idle", fileId |-> Null, otp |-> Null, file |-> NoFile,
                aesKey |-> Null, decryptedArray |-> Null, response |-> NoResponse,
                afterExhaustion |-> FALSE, updateRejected |-> FALSE]

\* The body and status of an encrypt-upload response.
NoUploadResponse == [status |-> 0, error |-> Null, success |-> FALSE, fileId |-> Null,
                     shareLink |-> Null, otp |-> Null]

\* catch: status 400 with error.message.
UploadError(message) == [NoUploadResponse EXCEPT !.status = 400, !.error = message]

IdleUpload == [pc |-> "idle", fileId |-> Null, fileBuffer |-> Null, fileSize |-> 0,
               otpValidityMinutes |-> 0, otp |-> Null, otpExpiresAt |-> 0,
               otpCreatedAt |-> 0, otpSource |-> Null, profile |-> 0,
               response |-> NoUploadResponse]

\* No get-file-info request yet.
NoInfo == [fileId |-> Null, status |-> 0, body |-> [error |-> Null]]

\* INCLUDE_OTP_IN_RESPONSE is "true" only in a debugging deployment.
Production == [INCLUDE_OTP_IN_RESPONSE |-> FALSE]

Init ==
  /\ files = [f \in FileIds |-> NoFile]
  /\ blobs = [p \in Paths |-> NoBlob]
  /\ access_logs = EmptyBag
  /\ storage_used = 0
  /\ emails = {}
  /\ now = 0
  /\ req = [r \in Slots |-> IdleRequest]
  /\ up = IdleUpload
  /\ peer = IdleUpload
  /\ logLimit = MaxAccessLogs
  /\ info = NoInfo
  /\ env = Production
  /\ settled = {}
  /\ faults = 0
  /\ everExhausted = {}

\* ------------------------------------------------------- encrypt-upload
\* Mutant of OtpNumber: Math.round in place of Math.floor.
OtpNumberRounded(k) ==
  100000 + (k + (RandomResolution \div 900000) \div 2) \div (RandomResolution \div 900000)

\* Math.floor(100000 + Math.random() * 900000) for Math.random() =
\* k / RandomResolution: the product is k / (RandomResolution / 900000).
OtpNumber(k) == 100000 + k \div (RandomResolution \div 900000)

\* The decimal digits of a number, most significant first.
RECURSIVE Digits(_)
Digits(n) == IF n < 10 THEN <<n>> ELSE Append(Digits(n \div 10), n % 10)

DigitChar == <<"0", "1", "2", "3", "4", "5", "6", "7", "8", "9">>

\* Number.prototype.toString()
RECURSIVE Join(_)
Join(digits) ==
  IF digits = <<>> THEN "" ELSE DigitChar[Head(digits) + 1] \o Join(Tail(digits))

NumberToString(n) == Join(Digits(n))

\* const otp = Math.floor(100000 + Math.random() * 900000).toString()
generateOtp(k) == NumberToString(OtpNumber(k))

\* Where the OTP's randomness comes from.
OtpSource == "Math.random"

\* What the handler has computed when it issues the storage upload.
EncryptedFile(u) == AesGcmEncrypt(FreshAesKey(u.fileId), FreshFileIv(u.fileId), u.fileBuffer)

WrappedKey(u) ==
  AesGcmEncrypt(DeriveKek(u.otp, FreshSalt(u.fileId)), FreshKeyIv(u.fileId),
                FreshAesKey(u.fileId))

\* The row of the insert, with the table's defaults for the columns the
\* insert leaves out.
FileRow(u) ==
  [id |-> u.fileId,
   user_id |-> UserId,
   original_filename |-> "a.txt",
   encrypted_filename |-> EncryptedFileName(UserId, u.fileId),
   file_size |-> u.fileSize,
   file_mimetype |-> "text/plain",
   original_file_hash |-> HashSha256Hex(u.fileBuffer),
   encrypted_aes_key |-> Btoa(WrappedKey(u)),
   key_salt |-> Btoa(FreshSalt(u.fileId)),
   file_iv |-> Btoa(FreshFileIv(u.fileId)),
   key_iv |-> Btoa(FreshKeyIv(u.fileId)),
   otp_hash |-> HashSha256Hex(u.otp),
   otp_created_at |-> u.otpCreatedAt,
   otp_expires_at |-> u.otpExpiresAt,
   max_access_attempts |-> DefaultMaxAccessAttempts,
   access_count |-> 0,
   one_time_access |-> TRUE,
   recipient_email |-> "rcpt",
   file_description |-> Null,
   file_status |-> "active",
   upload_timestamp |-> now,
   last_access_timestamp |-> -1]

\* The body of the send-otp-email invocation.
OtpEmail(u) ==
  [recipientEmail |-> "rcpt", otp |-> u.otp, fileName |-> "a.txt", fileId |-> u.fileId,
   senderEmail |-> "owner", expiryMinutes |-> u.otpValidityMinutes]

\* Mutant of AddRow: the insert replaces what the table held.
ReplaceRows(table, row) == SetToBag({row})

\* from("access_logs").insert(row)
AddRow(table, row) == table (+) SetToBag({row})

LogEntry(fileId, userId, type, status, reason) ==
  [file_id |-> fileId, user_id |-> userId, access_type |-> type,
   access_status |-> status, failure_reason |-> reason]

\* Mutant of UploadErrorGate: the result of the storage upload is ignored.
UploadErrorGateOff(ok) == FALSE

\* if (uploadError) throw uploadError
UploadErrorGate(ok) == ~ok

\* Mutant of OtpExpiresAt: the validity is left out.
OtpExpiresAtNow(clock, otpValidityMinutes) == clock

\* new Date(Date.now() + otpValidityMinutes * 60000), in minutes
OtpExpiresAt(clock, otpValidityMinutes) == clock + otpValidityMinutes

\* The request arrives; getUser; hash, keys, OTP, encryption and wrap are
\* local; then the ciphertext is put in the bucket (ok: the bucket took it),
\* and past the error check the OTP expiry and otp_created_at are computed
\* from the clock.
StorageUpload(f, fileBuffer, fileSize, otpValidityMinutes, otp, authed, ok) ==
  /\ up.pc = "idle"
  /\ files[f] = NoFile
  /\ blobs[EncryptedFileName(UserId, f)] = NoBlob
  /\ LET u == [up EXCEPT !.fileId = f, !.fileBuffer = fileBuffer, !.fileSize = fileSize,
                         !.otpValidityMinutes = otpValidityMinutes, !.otp = otp,
                         !.otpSource = OtpSource]
     IN IF ~authed
        THEN /\ up' = [up EXCEPT !.pc = "done", !.response = UploadError("Unauthorized")]
             /\ blobs' = blobs
        ELSE /\ blobs' = IF ok
                         THEN [blobs EXCEPT ![EncryptedFileName(UserId, f)] = EncryptedFile(u)]
                         ELSE blobs
             /\ up' = IF UploadErrorGate(ok)
                      THEN [u EXCEPT !.pc = "done", !.response = UploadError("uploadError")]
                      ELSE [u EXCEPT !.pc = "insert",
                                     !.otpExpiresAt = OtpExpiresAt(now, otpValidityMinutes),
                                     !.otpCreatedAt = now]
  /\ UNCHANGED <<files, access_logs, storage_used, emails, now, req, peer, logLimit, info, env, settled,
                 faults, everExhausted>>

\* Mutant of InsertRecord: send-otp-email is fired whatever the insert
\* returned.
InsertRecordAlwaysMails(ok) ==
  /\ up.pc = "insert"
  /\ emails' = emails \cup {OtpEmail(up)}
  /\ IF ok
     THEN /\ files' = [files EXCEPT ![up.fileId] = FileRow(up)]
          /\ up' = [up EXCEPT !.pc = "log"]
     ELSE /\ up' = [up EXCEPT !.pc = "done", !.response = UploadError("dbError")]
          /\ UNCHANGED files
  /\ UNCHANGED <<blobs, access_logs, storage_used, now, req, peer, logLimit, info, env, settled, faults, everExhausted>>

\* The files insert; on success the handler fires send-otp-email without
\* awaiting it.
InsertRecord(ok) ==
  /\ up.pc = "insert"
  /\ IF ok
     THEN /\ files' = [files EXCEPT ![up.fileId] = FileRow(up)]
          /\ emails' = emails \cup {OtpEmail(up)}
          /\ up' = [up EXCEPT !.pc = "log"]
     ELSE /\ up' = [up EXCEPT !.pc = "done", !.response = UploadError("dbError")]
          /\ UNCHANGED <<files, emails>>
  /\ UNCHANGED <<blobs, access_logs, storage_used, now, req, peer, logLimit, info, env, settled, faults, everExhausted>>

\* access_logs insert: upload / success.
LogUpload ==
  /\ up.pc = "log"
  /\ access_logs' = AddRow(access_logs, LogEntry(up.fileId, UserId, "upload", "success", Null))
  /\ up' = [up EXCEPT !.pc = "profile"]
  /\ UNCHANGED <<files, blobs, storage_used, emails, now, req, peer, logLimit, info, env, settled, faults, everExhausted>>

\* profiles select storage_used.
ReadProfile ==
  /\ up.pc = "profile"
  /\ up' = [up EXCEPT !.pc = "profile_update", !.profile = storage_used]
  /\ UNCHANGED <<files, blobs, access_logs, storage_used, emails, now, req, peer, logLimit, info, env, settled, faults,
                 everExhausted>>

\* Mutant of UploadSuccess: the OTP is in every 200 response.
UploadSuccessWithOtp(u, environment) ==
  [status |-> 200, error |-> Null, success |-> TRUE, fileId |-> u.fileId,
   shareLink |-> "/access/" \o u.fileId, otp |-> u.otp]

\* The 200 response: success, fileId, shareLink, and the OTP when
\* INCLUDE_OTP_IN_RESPONSE is "true".
UploadSuccess(u, environment) ==
  [NoUploadResponse EXCEPT !.status = 200, !.success = TRUE, !.fileId = u.fileId,
                           !.shareLink = "/access/" \o u.fileId,
                           !.otp = IF environment.INCLUDE_OTP_IN_RESPONSE THEN u.otp ELSE Null]

\* profiles update storage_used = read value + fileSize; then the 200 response.
UpdateProfile ==
  /\ up.pc = "profile_update"
  /\ storage_used' = up.profile + up.fileSize
  /\ up' = [up EXCEPT !.pc = "done", !.response = UploadSuccess(up, env)]
  /\ UNCHANGED <<files, blobs, access_logs, emails, now, req, peer, logLimit, info, env, settled, faults, everExhausted>>

Upload ==
  \/ \E f \in FileIds, fileBuffer \in Payloads, fileSize \in FileSizes,
        otpValidityMinutes \in Validities, otp \in OtpSpace, authed \in BOOLEAN,
        ok \in BOOLEAN :
          StorageUpload(f, fileBuffer, fileSize, otpValidityMinutes, otp, authed, ok)
  \/ \E ok \in BOOLEAN : InsertRecord(ok)
  \/ LogUpload
  \/ ReadProfile
  \/ UpdateProfile

\* --------------------------------------------------- verify-and-decrypt
\* The handler returns: its locals are gone; the request and its response
\* are what remains.
Finish(r, response) ==
  [IdleRequest EXCEPT !.pc = "done", !.response = response,
                      !.fileId = req[r].fileId, !.otp = req[r].otp,
                      !.afterExhaustion = req[r].afterExhaustion,
                      !.updateRejected = req[r].updateRejected]

\* Requests between their fetch and their response.
InFlight == {r \in Slots : req[r].pc \notin {"idle", "done"}}

\* Rows of access_logs written by verify-and-decrypt.
AccessRows ==
  BagCardinality([row \in {e \in BagToSet(access_logs) : e.access_type # "upload"} |->
                    access_logs[row]])

\* The request {fileId, otp} arrives in a free slot and the files row is
\* selected: the handler works on this copy from here on.
Fetch(r, fileId, otp) ==
  /\ req[r].pc \in {"idle", "done"}
  /\ AccessRows + Cardinality(InFlight) < logLimit
  /\ LET started == [IdleRequest EXCEPT !.fileId = fileId, !.otp = otp,
                                        !.afterExhaustion = (fileId \in everExhausted)]
     IN req' = [req EXCEPT ![r] =
                  IF files[fileId] = NoFile
                  THEN [started EXCEPT !.pc = "done",
                                       !.response = ErrorResponse("File not found")]
                  ELSE [started EXCEPT !.pc = "fetched", !.file = files[fileId]]]
  /\ UNCHANGED <<files, blobs, access_logs, storage_used, emails, now, up, peer, logLimit, info, env, settled,
                 faults, everExhausted>>

\* Mutant of StatusGate: the status is not checked.
StatusGateOff(file) == FALSE

\* if (file.file_status !== "active")
StatusGate(file) == file.file_status # "active"

\* Mutant of ExpiryGate: expiry is noticed one tick late.
ExpiryGateLate(file, clock) == file.otp_expires_at + 1 < clock

\* if (new Date(file.otp_expires_at) < new Date())
ExpiryGate(file, clock) == file.otp_expires_at < clock

\* Mutant of AttemptGate: the attempts are not checked.
AttemptGateOff(file) == FALSE

\* Mutant of AttemptGate: > in place of >=.
AttemptGateOffByOne(file) == file.access_count > file.max_access_attempts

\* if (file.access_count >= file.max_access_attempts)
AttemptGate(file) == file.access_count >= file.max_access_attempts

\* Mutant of OtpGate: the hashes are not compared.
OtpGateOff(file, otp) == FALSE

\* if (submittedOtpHash !== file.otp_hash)
OtpGate(file, otp) == HashSha256Hex(otp) # file.otp_hash

\* deriveKey from the submitted OTP and the stored salt, then unwrapKey.
UnwrapAesKey(file, otp) ==
  AesGcmDecrypt(DeriveKek(otp, Atob(file.key_salt)), Atob(file.key_iv),
                Atob(file.encrypted_aes_key))

\* Mutant of Verify: the OTP is compared before the expiry and the attempts.
VerifyOtpFirst(r) ==
  /\ req[r].pc = "fetched"
  /\ LET file == req[r].file
         otp == req[r].otp
     IN req' = [req EXCEPT ![r] =
          IF StatusGate(file)
            THEN Finish(r, ErrorResponse("File is " \o file.file_status))
          ELSE IF OtpGate(file, otp)
            THEN [req[r] EXCEPT !.pc = "log_invalid"]
          ELSE IF ExpiryGate(file, now)
            THEN [req[r] EXCEPT !.pc = "expire"]
          ELSE IF AttemptGate(file)
            THEN Finish(r, ErrorResponse("Maximum access attempts reached"))
          ELSE IF UnwrapAesKey(file, otp) = OperationError
            THEN Finish(r, ErrorResponse(OperationError))
          ELSE [req[r] EXCEPT !.pc = "download", !.aesKey = UnwrapAesKey(file, otp)]]
  /\ UNCHANGED <<files, blobs, access_logs, storage_used, emails, now, up, peer, logLimit, info, env, settled, faults,
                 everExhausted>>

\* The gates on the fetched copy, in the handler's order, up to the next
\* await: status, expiry (against the clock), attempts, OTP hash, key unwrap.
Verify(r) ==
  /\ req[r].pc = "fetched"
  /\ LET file == req[r].file
         otp == req[r].otp
     IN req' = [req EXCEPT ![r] =
          IF StatusGate(file)
            THEN Finish(r, ErrorResponse("File is " \o file.file_status))
          ELSE IF ExpiryGate(file, now)
            THEN [req[r] EXCEPT !.pc = "expire"]
          ELSE IF AttemptGate(file)
            THEN Finish(r, ErrorResponse("Maximum access attempts reached"))
          ELSE IF OtpGate(file, otp)
            THEN [req[r] EXCEPT !.pc = "log_invalid"]
          ELSE IF UnwrapAesKey(file, otp) = OperationError
            THEN Finish(r, ErrorResponse(OperationError))
          ELSE [req[r] EXCEPT !.pc = "download", !.aesKey = UnwrapAesKey(file, otp)]]
  /\ UNCHANGED <<files, blobs, access_logs, storage_used, emails, now, up, peer, logLimit, info, env, settled, faults,
                 everExhausted>>

\* files.update({file_status: "expired"}).eq("id", fileId), then the throw.
ExpireWrite(r) ==
  /\ req[r].pc = "expire"
  /\ files' = [files EXCEPT ![req[r].fileId].file_status = "expired"]
  /\ req' = [req EXCEPT ![r] = Finish(r, ErrorResponse("OTP has expired"))]
  /\ UNCHANGED <<blobs, access_logs, storage_used, emails, now, up, peer, logLimit, info, env, settled, faults,
                 everExhausted>>

\* Mutant of LogInvalidOtp: a wrong OTP also revokes the file.
LogInvalidOtpRevokes(r) ==
  /\ req[r].pc = "log_invalid"
  /\ access_logs' = AddRow(access_logs,
        LogEntry(req[r].fileId, Null, "otp_verify", "failure", "Invalid OTP"))
  /\ files' = [files EXCEPT ![req[r].fileId].file_status = "revoked"]
  /\ req' = [req EXCEPT ![r] = Finish(r, ErrorResponse("Invalid OTP"))]
  /\ UNCHANGED <<blobs, storage_used, emails, now, up, peer, logLimit, info, env, settled, faults,
                 everExhausted>>

\* access_logs insert otp_verify / failure, then the throw.
LogInvalidOtp(r) ==
  /\ req[r].pc = "log_invalid"
  /\ access_logs' = AddRow(access_logs,
        LogEntry(req[r].fileId, Null, "otp_verify", "failure", "Invalid OTP"))
  /\ req' = [req EXCEPT ![r] = Finish(r, ErrorResponse("Invalid OTP"))]
  /\ UNCHANGED <<files, blobs, storage_used, emails, now, up, peer, logLimit, info, env, settled, faults, everExhausted>>

\* Mutant of IntegrityGate: the hashes are not compared.
IntegrityGateOff(file, decryptedArray) == FALSE

\* if (fileHash !== file.original_file_hash)
IntegrityGate(file, decryptedArray) == HashSha256Hex(decryptedArray) # file.original_file_hash

\* storage download of file.encrypted_filename; then, locally, the AES-GCM
\* decryption and the integrity comparison.
Download(r) ==
  /\ req[r].pc = "download"
  /\ LET file == req[r].file
         encryptedBuffer == blobs[file.encrypted_filename]
         decryptedFile == AesGcmDecrypt(req[r].aesKey, Atob(file.file_iv), encryptedBuffer)
     IN req' = [req EXCEPT ![r] =
          IF encryptedBuffer = NoBlob
            THEN Finish(r, ErrorResponse("Failed to download encrypted file"))
          ELSE IF decryptedFile = OperationError
            THEN Finish(r, ErrorResponse(OperationError))
          ELSE IF IntegrityGate(file, decryptedFile)
            THEN [req[r] EXCEPT !.pc = "log_integrity"]
          ELSE [req[r] EXCEPT !.pc = "update", !.decryptedArray = decryptedFile]]
  /\ UNCHANGED <<files, blobs, access_logs, storage_used, emails, now, up, peer, logLimit, info, env, settled, faults,
                 everExhausted>>

\* access_logs insert download / failure, then the throw.
LogIntegrityFailure(r) ==
  /\ req[r].pc = "log_integrity"
  /\ access_logs' = AddRow(access_logs,
        LogEntry(req[r].fileId, Null, "download", "failure", "File integrity check failed"))
  /\ req' = [req EXCEPT ![r] = Finish(r,
        ErrorResponse("File integrity check failed - possible tampering detected"))]
  /\ UNCHANGED <<files, blobs, storage_used, emails, now, up, peer, logLimit, info, env, settled, faults, everExhausted>>

\* Mutant of AccessCountPatch: the count is written back as it was read.
AccessCountPatchSame(file) == file.access_count

\* The patch of the final files.update: the count of the fetched copy plus one.
AccessCountPatch(file) == file.access_count + 1

\* Which rows the final files.update touches: .eq("id", fileId), nothing else.
UpdateFilter(row, file) == row.id = file.id

\* Mutant of UpdateAccessCount: the update waits while another request is at
\* its own update.
UpdateAccessCountLocked(r) ==
  /\ req[r].pc = "update"
  /\ \A other \in Slots \ {r} : req[other].pc # "update"
  /\ LET file == req[r].file
         row == files[req[r].fileId]
         hit == UpdateFilter(row, file)
     IN /\ files' = IF hit
                    THEN [files EXCEPT ![req[r].fileId].access_count = AccessCountPatch(file),
                                       ![req[r].fileId].last_access_timestamp = now]
                    ELSE files
        /\ everExhausted' =
             IF hit /\ AccessCountPatch(file) >= row.max_access_attempts
             THEN everExhausted \cup {req[r].fileId}
             ELSE everExhausted
  /\ req' = [req EXCEPT ![r].pc = "log_success"]
  /\ UNCHANGED <<blobs, access_logs, storage_used, emails, now, up, peer, logLimit, info, env, settled, faults>>

\* files.update({access_count: file.access_count + 1, last_access_timestamp}).eq("id", fileId)
UpdateAccessCount(r) ==
  /\ req[r].pc = "update"
  /\ LET file == req[r].file
         row == files[req[r].fileId]
         hit == UpdateFilter(row, file)
     IN /\ files' = IF hit
                    THEN [files EXCEPT ![req[r].fileId].access_count = AccessCountPatch(file),
                                       ![req[r].fileId].last_access_timestamp = now]
                    ELSE files
        /\ everExhausted' =
             IF hit /\ AccessCountPatch(file) >= row.max_access_attempts
             THEN everExhausted \cup {req[r].fileId}
             ELSE everExhausted
  /\ req' = [req EXCEPT ![r].pc = "log_success"]
  /\ UNCHANGED <<blobs, access_logs, storage_used, emails, now, up, peer, logLimit, info, env, settled, faults>>

\* The store rejects the final files.update: the client returns the error
\* in its result, which the handler does not look at, and the handler goes
\* on to the success log.
UpdateRejected(r) ==
  /\ req[r].pc = "update"
  /\ req' = [req EXCEPT ![r].pc = "log_success", ![r].updateRejected = TRUE]
  /\ UNCHANGED <<files, blobs, access_logs, storage_used, emails, now, up, peer, logLimit, info, env,
                 settled, faults, everExhausted>>

\* access_logs insert download / success, then the 200 response with the
\* plaintext in base64, the filename and the MIME type; the base64
\* conversion spreads the plaintext into one call, and its RangeError goes
\* to the catch block.
LogSuccess(r) ==
  /\ req[r].pc = "log_success"
  /\ access_logs' = AddRow(access_logs,
        LogEntry(req[r].fileId, Null, "download", "success", Null))
  /\ req' = [req EXCEPT ![r] = Finish(r,
        IF SpreadOverflows(req[r].decryptedArray)
        THEN ErrorResponse(RangeError)
        ELSE [status |-> 200, error |-> Null, fileData |-> Btoa(req[r].decryptedArray),
              filename |-> req[r].file.original_filename,
              mimeType |-> req[r].file.file_mimetype])]
  /\ UNCHANGED <<files, blobs, storage_used, emails, now, up, peer, logLimit, info, env, settled, faults, everExhausted>>

\* The handler's steps, but for the integrity exit.
Access ==
  \/ \E r \in Slots, fileId \in FileIds, otp \in OtpSpace : Fetch(r, fileId, otp)
  \/ \E r \in Slots : Verify(r)
  \/ \E r \in Slots : ExpireWrite(r)
  \/ \E r \in Slots : LogInvalidOtp(r)
  \/ \E r \in Slots : Download(r)
  \/ \E r \in Slots : UpdateAccessCount(r)
  \/ \E r \in Slots : LogSuccess(r)

\* The integrity exit: Download leads to it only when the stored hash and
\* the stored ciphertext disagree, which takes a storage fault.
IntegrityExit == \E r \in Slots : LogIntegrityFailure(r)

\* -------------------------------------------------------- get-file-info
\* Mutant of FileInfoColumns: the select also takes the OTP hash.
FileInfoColumnsWithHash ==
  {"original_filename", "file_size", "upload_timestamp", "otp_expires_at",
   "max_access_attempts", "access_count", "file_description", "file_status", "otp_hash"}

\* .select("original_filename, file_size, upload_timestamp, otp_expires_at,
\*          max_access_attempts, access_count, file_description, file_status")
FileInfoColumns ==
  {"original_filename", "file_size", "upload_timestamp", "otp_expires_at",
   "max_access_attempts", "access_count", "file_description", "file_status"}

\* The selected columns of a row.
Select(row, columns) == [c \in columns |-> row[c]]

\* The handler on the outcome of its select: "File not found" without a row,
\* "File is no longer accessible" unless the row is active, else the selected
\* columns as the 200 body.
FileInfoResponse(fileId, row) ==
  IF row = NoFile
    THEN [fileId |-> fileId, status |-> 400, body |-> [error |-> "File not found"]]
  ELSE IF row.file_status # "active"
    THEN [fileId |-> fileId, status |-> 400,
          body |-> [error |-> "File is no longer accessible"]]
  ELSE [fileId |-> fileId, status |-> 200, body |-> Select(row, FileInfoColumns)]

\* get-file-info: one select on files, then the response.
getFileInfo(fileId) ==
  /\ info' = FileInfoResponse(fileId, files[fileId])
  /\ UNCHANGED <<files, blobs, access_logs, storage_used, emails, now, req, up, peer, logLimit,
                 env, settled, faults, everExhausted>>

\* ------------------------------------------------------------- MyFiles
\* Mutant of handleDelete: the delete also blanks the OTP hash.
handleDeleteWipesOtp(fileId) ==
  /\ files[fileId] # NoFile
  /\ files[fileId].file_status # "deleted"
  /\ files' = [files EXCEPT ![fileId].file_status = "deleted",
                            ![fileId].otp_hash = HashSha256Hex(Null)]
  /\ UNCHANGED <<blobs, access_logs, storage_used, emails, now, req, up, peer, logLimit, info, env,
                 settled, faults, everExhausted>>

\* Mutant of handleDelete: the row is removed.
handleDeleteRow(fileId) ==
  /\ files[fileId] # NoFile
  /\ files[fileId].file_status # "deleted"
  /\ files' = [files EXCEPT ![fileId] = NoFile]
  /\ UNCHANGED <<blobs, access_logs, storage_used, emails, now, req, up, peer, logLimit, info, env,
                 settled, faults, everExhausted>>

\* handleDelete: files.update({file_status: "deleted"}).eq("id", fileId)
handleDelete(fileId) ==
  /\ files[fileId] # NoFile
  /\ files[fileId].file_status # "deleted"
  /\ files' = [files EXCEPT ![fileId].file_status = "deleted"]
  /\ UNCHANGED <<blobs, access_logs, storage_used, emails, now, req, up, peer, logLimit, info, env, settled, faults,
                 everExhausted>>

\* ------------------------------------------------------ send-otp-email
\* Mutant of SendOtpEmail: a failed e-mail takes the upload back.
SendOtpEmailRollsBack(email, ok) ==
  /\ email \in emails
  /\ \A s \in settled : s.email # email
  /\ settled' = settled \cup {[email |-> email, sent |-> ok]}
  /\ files' = IF ok THEN files ELSE [files EXCEPT ![email.fileId] = NoFile]
  /\ blobs' = IF ok THEN blobs
              ELSE [blobs EXCEPT ![EncryptedFileName(UserId, email.fileId)] = NoBlob]
  /\ UNCHANGED <<access_logs, storage_used, emails, now, req, up, peer, logLimit, info, env, faults,
                 everExhausted>>

\* An invocation of send-otp-email returns: resend.emails.send went through
\* (200) or threw (400).  The caller's then/catch only write to the console.
\* An invocation that never returns never takes this step.
SendOtpEmail(email, ok) ==
  /\ email \in emails
  /\ \A s \in settled : s.email # email
  /\ settled' = settled \cup {[email |-> email, sent |-> ok]}
  /\ UNCHANGED <<files, blobs, access_logs, storage_used, emails, now, req, up, peer, logLimit, info,
                 env, faults, everExhausted>>

Notifier == \E email \in emails, ok \in BOOLEAN : SendOtpEmail(email, ok)

\* ------------------------------------------------------- environment
\* Mutant of Tick: the passage of time expires the files whose OTP is over.
TickExpires ==
  /\ now < MaxTime
  /\ now' = now + 1
  /\ files' = [f \in FileIds |->
                IF files[f] # NoFile /\ files[f].file_status = "active"
                   /\ files[f].otp_expires_at < now + 1
                THEN [files[f] EXCEPT !.file_status = "expired"]
                ELSE files[f]]
  /\ UNCHANGED <<blobs, access_logs, storage_used, emails, req, up, peer, logLimit, info, env,
                 settled, faults, everExhausted>>

\* Time passes.
Tick ==
  /\ now < MaxTime
  /\ now' = now + 1
  /\ UNCHANGED <<files, blobs, access_logs, storage_used, emails, req, up, peer, logLimit, info, env, settled, faults,
                 everExhausted>>

\* Storage corruption of the stored original_file_hash column.
CorruptHash(fileId) ==
  /\ faults < MaxFaults
  /\ files[fileId] # NoFile
  /\ faults' = faults + 1
  /\ files' = [files EXCEPT ![fileId].original_file_hash = HashSha256Hex("corrupt")]
  /\ UNCHANGED <<blobs, access_logs, storage_used, emails, now, req, up, peer, logLimit, info, env, settled, everExhausted>>

\* Storage corruption of the stored encrypted_aes_key column (a flipped bit).
CorruptWrappedKey(fileId) ==
  /\ faults < MaxFaults
  /\ files[fileId] # NoFile
  /\ faults' = faults + 1
  /\ files' = [files EXCEPT ![fileId].encrypted_aes_key =
                  Btoa([Atob(@) EXCEPT !.intact = FALSE])]
  /\ UNCHANGED <<blobs, access_logs, storage_used, emails, now, req, up, peer, logLimit, info, env, settled, everExhausted>>

\* Storage corruption of the stored ciphertext (a flipped bit).
CorruptBlob(path) ==
  /\ faults < MaxFaults
  /\ blobs[path] # NoBlob
  /\ faults' = faults + 1
  /\ blobs' = [blobs EXCEPT ![path].intact = FALSE]
  /\ UNCHANGED <<files, access_logs, storage_used, emails, now, req, up, peer, logLimit, info, env, settled, everExhausted>>

\* The stored ciphertext is lost.
LoseBlob(path) ==
  /\ faults < MaxFaults
  /\ blobs[path] # NoBlob
  /\ faults' = faults + 1
  /\ blobs' = [blobs EXCEPT ![path] = NoBlob]
  /\ UNCHANGED <<files, access_logs, storage_used, emails, now, req, up, peer, logLimit, info, env, settled, everExhausted>>

Fault ==
  \/ \E fileId \in FileIds : CorruptHash(fileId)
  \/ \E fileId \in FileIds : CorruptWrappedKey(fileId)
  \/ \E path \in Paths : CorruptBlob(path)
  \/ \E path \in Paths : LoseBlob(path)

\* The store keeps what it is given (the integrity exit is then out of
\* reach, and is left to FaultNext).
Next ==
  \/ Upload
  \/ Access
  \/ \E fileId \in FileIds : handleDelete(fileId)
  \/ Tick

Spec == Init /\ [][Next]_vars

\* The store may corrupt or lose what it holds.
FaultInit ==
  /\ files = [f \in FileIds |-> NoFile]
  /\ blobs = [p \in Paths |-> NoBlob]
  /\ access_logs = EmptyBag
  /\ storage_used = 0
  /\ emails = {}
  /\ now = 0
  /\ req = [r \in Slots |-> IdleRequest]
  /\ up = IdleUpload
  /\ peer = IdleUpload
  /\ logLimit = MaxFaultLogs
  /\ info = NoInfo
  /\ env = Production
  /\ settled = {}
  /\ faults = 0
  /\ everExhausted = {}

FaultNext ==
  \/ Upload
  \/ Access
  \/ IntegrityExit
  \/ \E fileId \in FileIds : handleDelete(fileId)
  \/ Tick
  \/ Fault

FaultSpec == FaultInit /\ [][FaultNext]_vars

\* A deployment with INCLUDE_OTP_IN_RESPONSE set to "true".
Debugging == [INCLUDE_OTP_IN_RESPONSE |-> TRUE]

\* Either deployment, and the e-mail invocations return.
DeployInit ==
  /\ files = [f \in FileIds |-> NoFile]
  /\ blobs = [p \in Paths |-> NoBlob]
  /\ access_logs = EmptyBag
  /\ storage_used = 0
  /\ emails = {}
  /\ now = 0
  /\ req = [r \in Slots |-> IdleRequest]
  /\ up = IdleUpload
  /\ peer = IdleUpload
  /\ logLimit = MaxDeployLogs
  /\ info = NoInfo
  /\ env \in {Production, Debugging}
  /\ settled = {}
  /\ faults = 0
  /\ everExhausted = {}

DeployNext ==
  \/ Upload
  \/ Notifier
  \/ Access
  \/ \E fileId \in FileIds : handleDelete(fileId)
  \/ Tick

DeploySpec == DeployInit /\ [][DeployNext]_vars

\* The public file-info read next to the other handlers, on a store that may
\* corrupt or lose what it holds.
InfoInit ==
  /\ files = [f \in FileIds |-> NoFile]
  /\ blobs = [p \in Paths |-> NoBlob]
  /\ access_logs = EmptyBag
  /\ storage_used = 0
  /\ emails = {}
  /\ now = 0
  /\ req = [r \in Slots |-> IdleRequest]
  /\ up = IdleUpload
  /\ peer = IdleUpload
  /\ logLimit = MaxInfoLogs
  /\ info = NoInfo
  /\ env = Production
  /\ settled = {}
  /\ faults = 0
  /\ everExhausted = {}

InfoNext ==
  \/ Upload
  \/ Access
  \/ IntegrityExit
  \/ \E fileId \in FileIds : getFileInfo(fileId)
  \/ \E fileId \in FileIds : handleDelete(fileId)
  \/ Tick
  \/ Fault

InfoSpec == InfoInit /\ [][InfoNext]_vars

\* Files of any size the upload page accepts, and validities of 1 and 10
\* minutes.
AnyPayloads == {"hello test", LargeFile}
AnyValidities == {1, 10}

UploadAnyFile ==
  \/ \E f \in FileIds, fileBuffer \in AnyPayloads, fileSize \in FileSizes,
        otpValidityMinutes \in AnyValidities, otp \in OtpSpace, authed \in BOOLEAN,
        ok \in BOOLEAN :
          StorageUpload(f, fileBuffer, fileSize, otpValidityMinutes, otp, authed, ok)
  \/ \E ok \in BOOLEAN : InsertRecord(ok)
  \/ LogUpload
  \/ ReadProfile
  \/ UpdateProfile

AnyFileInit ==
  /\ files = [f \in FileIds |-> NoFile]
  /\ blobs = [p \in Paths |-> NoBlob]
  /\ access_logs = EmptyBag
  /\ storage_used = 0
  /\ emails = {}
  /\ now = 0
  /\ req = [r \in Slots |-> IdleRequest]
  /\ up = IdleUpload
  /\ peer = IdleUpload
  /\ logLimit = MaxAnyFileLogs
  /\ info = NoInfo
  /\ env = Production
  /\ settled = {}
  /\ faults = 0
  /\ everExhausted = {}

AnyFileNext ==
  \/ UploadAnyFile
  \/ Access
  \/ \E fileId \in FileIds : handleDelete(fileId)
  \/ Tick

AnyFileSpec == AnyFileInit /\ [][AnyFileNext]_vars

\* The store may reject the final update of a request.
RejectInit ==
  /\ files = [f \in FileIds |-> NoFile]
  /\ blobs = [p \in Paths |-> NoBlob]
  /\ access_logs = EmptyBag
  /\ storage_used = 0
  /\ emails = {}
  /\ now = 0
  /\ req = [r \in Slots |-> IdleRequest]
  /\ up = IdleUpload
  /\ peer = IdleUpload
  /\ logLimit = MaxRejectLogs
  /\ info = NoInfo
  /\ env = Production
  /\ settled = {}
  /\ faults = 0
  /\ everExhausted = {}

RejectNext ==
  \/ Upload
  \/ Access
  \/ \E r \in Slots : UpdateRejected(r)
  \/ \E fileId \in FileIds : handleDelete(fileId)
  \/ Tick

RejectSpec == RejectInit /\ [][RejectNext]_vars

\* The runtime serves invocations of encrypt-upload concurrently: at an
\* await the invocation that was running waits and the other one goes on.
ContextSwitch ==
  /\ up # peer
  /\ up' = peer
  /\ peer' = up
  /\ UNCHANGED <<files, blobs, access_logs, storage_used, emails, now, req, logLimit, info, env,
                 settled, faults, everExhausted>>

\* Two uploads of one owner, each with its file id.
QuotaFileIds == {"f1", "f2"}

QuotaInit ==
  /\ files = [f \in QuotaFileIds |-> NoFile]
  /\ blobs = [p \in {EncryptedFileName(UserId, f) : f \in QuotaFileIds} |-> NoBlob]
  /\ access_logs = EmptyBag
  /\ storage_used = 0
  /\ emails = {}
  /\ now = 0
  /\ req = [r \in Slots |-> IdleRequest]
  /\ up = IdleUpload
  /\ peer = IdleUpload
  /\ logLimit = 0
  /\ info = NoInfo
  /\ env = Production
  /\ settled = {}
  /\ faults = 0
  /\ everExhausted = {}

QuotaUpload ==
  \/ \E f \in QuotaFileIds, fileBuffer \in Payloads, fileSize \in FileSizes,
        otpValidityMinutes \in Validities, otp \in OtpSpace, authed \in BOOLEAN,
        ok \in BOOLEAN :
          StorageUpload(f, fileBuffer, fileSize, otpValidityMinutes, otp, authed, ok)
  \/ \E ok \in BOOLEAN : InsertRecord(ok)
  \/ LogUpload
  \/ ReadProfile
  \/ UpdateProfile

QuotaNext ==
  \/ QuotaUpload
  \/ ContextSwitch
  \/ Tick

QuotaSpec == QuotaInit /\ [][QuotaNext]_vars

\* The steps of request r after its fetch: each is the continuation of an
\* await on the store.
Run(r) ==
  \/ Verify(r)
  \/ ExpireWrite(r)
  \/ LogInvalidOtp(r)
  \/ Download(r)
  \/ LogIntegrityFailure(r)
  \/ UpdateAccessCount(r)
  \/ LogSuccess(r)

LiveInit ==
  /\ files = [f \in FileIds |-> NoFile]
  /\ blobs = [p \in Paths |-> NoBlob]
  /\ access_logs = EmptyBag
  /\ storage_used = 0
  /\ emails = {}
  /\ now = 0
  /\ req = [r \in Slots |-> IdleRequest]
  /\ up = IdleUpload
  /\ peer = IdleUpload
  /\ logLimit = MaxLiveLogs
  /\ info = NoInfo
  /\ env = Production
  /\ settled = {}
  /\ faults = 0
  /\ everExhausted = {}

\* The handlers on a faithful store, with every call to the store
\* returning: the runtime resumes a handler whose await has settled.
LiveSpec == LiveInit /\ [][Next]_vars /\ \A r \in Slots : WF_vars(Run(r))

\* The values of Math.random() tried: the smallest, the largest, the middle.
RandomValues ==
  (0 .. RandomEdge - 1) \cup {RandomResolution \div 2}
    \cup (RandomResolution - RandomEdge .. RandomResolution - 1)

\* encrypt-upload with the OTP it generates from Math.random().
UploadGenerated ==
  \/ \E f \in FileIds, fileBuffer \in Payloads, fileSize \in FileSizes,
        otpValidityMinutes \in Validities, k \in RandomValues, authed \in BOOLEAN,
        ok \in BOOLEAN :
          StorageUpload(f, fileBuffer, fileSize, otpValidityMinutes, generateOtp(k), authed, ok)
  \/ \E ok \in BOOLEAN : InsertRecord(ok)
  \/ LogUpload
  \/ ReadProfile
  \/ UpdateProfile

OtpNext ==
  \/ UploadGenerated
  \/ Tick

OtpSpec == Init /\ [][OtpNext]_vars

\* ---------------------------------------------------------------- claims
\* The OTP that encrypt-upload generated for file f: the one in its e-mail.
CorrectOtp(f) == (CHOOSE e \in emails : e.fileId = f).otp

\* The download / success rows of file f.
Successes(f) == CopiesIn(LogEntry(f, Null, "download", "success", Null), access_logs)

\* The otp_verify / failure rows of file f.
InvalidOtpRows(f) ==
  CopiesIn(LogEntry(f, Null, "otp_verify", "failure", "Invalid OTP"), access_logs)

\* Request r takes a step.
Steps(r) == req'[r] # req[r]

\* C1: a file with max_access_attempts = N has at most N download/success
\* outcomes over its lifetime, whatever the interleaving of the requests.
C1_AtMostNSuccesses ==
  \A f \in FileIds : files[f] # NoFile => Successes(f) <= files[f].max_access_attempts

\* C2: the final write of a request is conditional: when the stored
\* access_count or file_status differs from what the request read, the write
\* changes nothing and the request does not go on to success.
C2_ConditionalUpdate ==
  [][\A r \in Slots :
       (req[r].pc = "update" /\ Steps(r)
        /\ (files[req[r].fileId].access_count # req[r].file.access_count
            \/ files[req[r].fileId].file_status # req[r].file.file_status))
       => (files' = files /\ req'[r].pc # "log_success")]_vars

\* C3: in every reachable state every FileRecord has
\* access_count <= max_access_attempts.
C3_CountWithinBound ==
  \A f \in FileIds : files[f] # NoFile => files[f].access_count <= files[f].max_access_attempts

\* C3 witness: the bound is met after runs that interleaved (more successes
\* were logged than the count shows).
C3_Witness ==
  \E f \in FileIds :
    /\ files[f] # NoFile
    /\ files[f].access_count = files[f].max_access_attempts
    /\ Successes(f) > files[f].access_count

\* C4: once access_count has reached max_access_attempts, no request that
\* starts afterwards returns plaintext.
C4_ExhaustionPermanent ==
  \A r \in Slots : req[r].afterExhaustion => req[r].response.status # 200

\* A request that takes the free slot r works on a copy of the stored row.
FetchCopies(r) ==
  (req[r].pc \in {"idle", "done"} /\ req'[r].pc = "fetched")
    => req'[r].file = files[req'[r].fileId]

\* The fetched copy of r is active and its OTP has not expired.
Live(r) ==
  /\ req[r].file.file_status = "active"
  /\ ~(req[r].file.otp_expires_at < now)

\* C5: a request that fetched an active, unexpired file whose access_count
\* has reached max_access_attempts (as after N sequential successes) fails
\* with "Maximum access attempts reached", whatever its OTP, and changes
\* neither the files row nor access_logs.
C5_AttemptsExhausted ==
  [][\A r \in Slots :
       /\ FetchCopies(r)
       /\ (req[r].pc = "fetched" /\ Steps(r) /\ Live(r)
           /\ req[r].file.access_count >= req[r].file.max_access_attempts)
          => /\ req'[r].pc = "done"
             /\ req'[r].response = ErrorResponse("Maximum access attempts reached")
             /\ files' = files
             /\ access_logs' = access_logs]_vars

\* C5 witness: after N sequential successes the next request, with the
\* correct OTP, was refused; the row stays active with access_count = N.
C5_Witness ==
  \E r \in Slots, f \in FileIds :
    /\ req[r].pc = "done" /\ req[r].fileId = f
    /\ req[r].response = ErrorResponse("Maximum access attempts reached")
    /\ req[r].otp = CorrectOtp(f)
    /\ files[f].file_status = "active"
    /\ files[f].access_count = files[f].max_access_attempts
    /\ Successes(f) = files[f].max_access_attempts

\* C6: on an active, unexpired, non-exhausted file a request whose OTP is
\* not the file's OTP fails "Invalid OTP" with no plaintext, leaves the
\* files row unchanged and appends one otp_verify/failure row; no request
\* with a wrong OTP reaches the download or a 200 response.
C6_WrongOtp ==
  [][\A r \in Slots :
       /\ (req[r].pc = "fetched" /\ Steps(r) /\ Live(r)
           /\ req[r].file.access_count < req[r].file.max_access_attempts
           /\ req[r].otp # CorrectOtp(req[r].fileId))
          => /\ req'[r].pc = "log_invalid"
             /\ files' = files
             /\ access_logs' = access_logs
       /\ (req[r].pc = "log_invalid" /\ Steps(r))
          => /\ req'[r].response = ErrorResponse("Invalid OTP")
             /\ files' = files
             /\ access_logs' = AddRow(access_logs,
                   LogEntry(req[r].fileId, Null, "otp_verify", "failure", "Invalid OTP"))
       /\ (req'[r].pc \in {"download", "log_integrity", "update", "log_success"}
           \/ req'[r].response.status = 200)
          => req'[r].otp = (CHOOSE e \in emails' : e.fileId = req'[r].fileId).otp]_vars

\* C6 witness: two wrong-OTP requests were refused and access_count is
\* still 0.
C6_Witness ==
  \E r \in Slots, f \in FileIds :
    /\ req[r].pc = "done" /\ req[r].fileId = f
    /\ req[r].response = ErrorResponse("Invalid OTP")
    /\ req[r].otp # CorrectOtp(f)
    /\ InvalidOtpRows(f) >= 2
    /\ files[f].access_count = 0
    /\ files[f].file_status = "active"

\* C7: a request on an active file that finds now > otp_expires_at goes to
\* the expiry exit whatever its OTP and the attempts, that exit stores
\* file_status = expired and answers "OTP has expired"; a row that is not
\* active never becomes active, and a request that fetches a row that is
\* not active is refused with "File is <status>".
C7_Expiry ==
  [][\A r \in Slots :
       /\ FetchCopies(r)
       /\ (req[r].pc = "fetched" /\ Steps(r)
           /\ req[r].file.file_status = "active"
           /\ req[r].file.otp_expires_at < now)
          => req'[r].pc = "expire"
       /\ (req[r].pc = "expire" /\ Steps(r))
          => /\ files'[req[r].fileId].file_status = "expired"
             /\ req'[r].response = ErrorResponse("OTP has expired")
       /\ (req[r].pc = "fetched" /\ Steps(r) /\ req[r].file.file_status # "active")
          => req'[r].response = ErrorResponse("File is " \o req[r].file.file_status)
       /\ \A f \in FileIds :
            (files[f] # NoFile /\ files[f].file_status # "active")
              => files'[f].file_status # "active"]_vars

\* C7 witness: a request with the correct OTP was answered "OTP has
\* expired", the row is expired, and a later request was answered "File is
\* expired".
C7_Witness ==
  \E r1, r2 \in Slots, f \in FileIds :
    /\ req[r1].pc = "done" /\ req[r1].fileId = f
    /\ req[r1].response = ErrorResponse("OTP has expired")
    /\ req[r1].otp = CorrectOtp(f)
    /\ files[f].file_status = "expired"
    /\ req[r2].pc = "done" /\ req[r2].fileId = f
    /\ req[r2].response = ErrorResponse("File is expired")

\* C8: deleted and revoked are absorbing: a row whose file_status is deleted
\* or revoked keeps that file_status in every step.
C8_Absorbing ==
  [][\A f \in FileIds :
       (files[f] # NoFile /\ files[f].file_status \in {"deleted", "revoked"})
         => files'[f].file_status = files[f].file_status]_vars

\* C9: a request whose fetched row is not active is refused with "File is
\* <status>" in the step that checks it, without touching files, blobs or
\* access_logs; no request holding a non-active copy is ever past that check
\* (at the expiry write, the OTP log, the unwrap, the download, the final
\* update).
C9_NotAccessible ==
  [][\A r \in Slots :
       /\ (req[r].pc = "fetched" /\ Steps(r) /\ req[r].file.file_status # "active")
          => /\ req'[r].pc = "done"
             /\ req'[r].response = ErrorResponse("File is " \o req[r].file.file_status)
             /\ files' = files
             /\ blobs' = blobs
             /\ access_logs' = access_logs
       /\ req'[r].pc \in {"expire", "log_invalid", "download", "log_integrity", "update",
                          "log_success"}
          => req'[r].file.file_status = "active"]_vars

\* C9 witness: one request was refused on the expired row and, after the
\* owner's delete, another on the deleted row.
C9_Witness ==
  \E r1, r2 \in Slots, f \in FileIds :
    /\ req[r1].pc = "done" /\ req[r1].fileId = f
    /\ req[r1].response = ErrorResponse("File is expired")
    /\ req[r2].pc = "done" /\ req[r2].fileId = f
    /\ req[r2].response = ErrorResponse("File is deleted")
    /\ files[f].file_status = "deleted"

\* C10: when the SHA-256 of the decrypted plaintext differs from the fetched
\* original_file_hash the request goes to the integrity exit, which appends a
\* download/failure row "File integrity check failed", answers with the
\* integrity error and no plaintext and leaves the files row unchanged; no
\* request is at the final update or at success with a mismatching hash.
C10_IntegrityMismatch ==
  [][\A r \in Slots :
       /\ (req[r].pc = "download" /\ Steps(r)
           /\ blobs[req[r].file.encrypted_filename] # NoBlob
           /\ AesGcmDecrypt(req[r].aesKey, Atob(req[r].file.file_iv),
                            blobs[req[r].file.encrypted_filename]) # OperationError
           /\ HashSha256Hex(AesGcmDecrypt(req[r].aesKey, Atob(req[r].file.file_iv),
                                          blobs[req[r].file.encrypted_filename]))
                # req[r].file.original_file_hash)
          => /\ req'[r].pc = "log_integrity"
             /\ files' = files
             /\ access_logs' = access_logs
       /\ (req[r].pc = "log_integrity" /\ Steps(r))
          => /\ req'[r].response = ErrorResponse(
                   "File integrity check failed - possible tampering detected")
             /\ files' = files
             /\ access_logs' = AddRow(access_logs,
                   LogEntry(req[r].fileId, Null, "download", "failure",
                            "File integrity check failed"))
       /\ req'[r].pc \in {"update", "log_success"}
          => HashSha256Hex(req'[r].decryptedArray) = req'[r].file.original_file_hash]_vars

\* C10 witness: a request with the correct OTP was answered with the
\* integrity error, the failure row is there, access_count is still 0 and
\* the row is still active.
C10_Witness ==
  \E r \in Slots, f \in FileIds :
    /\ req[r].pc = "done" /\ req[r].fileId = f
    /\ req[r].response =
         ErrorResponse("File integrity check failed - possible tampering detected")
    /\ req[r].otp = CorrectOtp(f)
    /\ CopiesIn(LogEntry(f, Null, "download", "failure", "File integrity check failed"),
                access_logs) = 1
    /\ files[f].access_count = 0
    /\ files[f].file_status = "active"

\* The bucket object of the upload in progress.
UploadedBlob == blobs[EncryptedFileName(UserId, up.fileId)]

\* C11: a fully successful run (one that reaches the final update) increases
\* the stored access_count by exactly 1 and sets last_access_timestamp, then
\* appends exactly one download/success row and returns the uploaded
\* plaintext with the stored filename and MIME type.
C11_SuccessfulRun ==
  [][\A r \in Slots :
       /\ (req[r].pc = "update" /\ Steps(r))
          => /\ files'[req[r].fileId].access_count = files[req[r].fileId].access_count + 1
             /\ files'[req[r].fileId].last_access_timestamp = now
       /\ (req[r].pc = "log_success" /\ Steps(r))
          => /\ access_logs' = AddRow(access_logs,
                   LogEntry(req[r].fileId, Null, "download", "success", Null))
             /\ req'[r].response =
                  [status |-> 200, error |-> Null, fileData |-> Btoa(up.fileBuffer),
                   filename |-> files[req[r].fileId].original_filename,
                   mimeType |-> files[req[r].fileId].file_mimetype]]_vars

\* C12: every run on an existing FileRecord appends at least one access_logs
\* row, whatever its outcome: the step in which a request past its fetch
\* returns adds a row.
C12_AlwaysLogged ==
  [][\A r \in Slots :
       (req[r].pc \notin {"idle", "done"} /\ req'[r].pc = "done")
         => BagCardinality(access_logs') > BagCardinality(access_logs)]_vars

\* C13: the response of a failed request is the same generic message for
\* every failure kind: any two failed requests have the same response.
C13_GenericFailure ==
  \A r1, r2 \in Slots :
    (req[r1].pc = "done" /\ req[r1].response.status = 400
     /\ req[r2].pc = "done" /\ req[r2].response.status = 400)
      => req[r1].response = req[r2].response

\* What C14 says of a state: a FileRecord's encrypted_filename names a
\* stored blob; an upload whose insert is issued has its ciphertext in the
\* bucket; an upload that failed at the blob write has no FileRecord.
BlobBeforeRecord ==
  /\ \A f \in FileIds : files[f] # NoFile => blobs[files[f].encrypted_filename] # NoBlob
  /\ up.pc = "insert" => UploadedBlob = EncryptedFile(up)
  /\ (up.pc = "done" /\ up.response.error = "uploadError")
       => (files[up.fileId] = NoFile /\ UploadedBlob = NoBlob)

\* C14: the blob write completes before the FileRecord insert is issued (the
\* step that creates a FileRecord finds its blob stored and does not write
\* it), a failed blob write prevents the insert, and every FileRecord's
\* encrypted_filename refers to a stored blob.
C14_BlobBeforeInsert ==
  [][/\ BlobBeforeRecord'
     /\ \A f \in FileIds :
          (files[f] = NoFile /\ files'[f] # NoFile)
            => /\ blobs[files'[f].encrypted_filename] # NoBlob
               /\ blobs' = blobs]_vars

\* C14 witness: the upload returned success; its FileRecord names the blob
\* that holds the ciphertext of the upload.
C14_Witness ==
  /\ up.pc = "done" /\ up.response.success
  /\ files[up.fileId] # NoFile
  /\ blobs[files[up.fileId].encrypted_filename] = EncryptedFile(up)

\* C15: when the FileRecord insert fails after the blob was stored, the
\* upload removes the blob before it returns the failure (the compensating
\* delete succeeding): a failed upload leaves no blob without a FileRecord.
C15_CompensatingDelete ==
  (up.pc = "done" /\ up.response.error = "dbError") => UploadedBlob = NoBlob

\* C16: upload success does not depend on the notifier: an e-mail invocation
\* that returns, sent or failed, changes neither the FileRecord, the blob nor
\* the upload; the upload's steps after the insert never wait for it; the
\* upload then answers success with the file id, and a FileRecord and blob
\* of a successful upload stay.
C16_NotifierIndependent ==
  [][/\ settled' # settled => (files' = files /\ blobs' = blobs /\ up' = up)
     /\ up.pc = "log" => ENABLED LogUpload
     /\ up.pc = "profile" => ENABLED ReadProfile
     /\ up.pc = "profile_update" => ENABLED UpdateProfile
     /\ (up.pc = "profile_update" /\ up'.pc = "done")
          => /\ up'.response.status = 200
             /\ up'.response.success
             /\ up'.response.fileId = up.fileId
     /\ up'.response.success
          => /\ files'[up'.fileId] # NoFile
             /\ blobs'[EncryptedFileName(UserId, up'.fileId)] = EncryptedFile(up')]_vars

\* C16 witness: the e-mail failed, and the upload returned success with the
\* file id; the FileRecord and the blob are there.
C16_Witness ==
  /\ up.pc = "done" /\ up.response.success /\ up.response.fileId = up.fileId
  /\ \E s \in settled : s.email.fileId = up.fileId /\ ~s.sent
  /\ files[up.fileId] # NoFile
  /\ UploadedBlob = EncryptedFile(up)

\* C17: every upload run leaves an upload audit row: upload/success when it
\* succeeded, upload/failure with a reason when the blob write or the
\* FileRecord insert failed.
C17_UploadAudited ==
  up.pc = "done"
    => /\ up.response.success
            => CopiesIn(LogEntry(up.fileId, UserId, "upload", "success", Null),
                        access_logs) >= 1
       /\ up.response.error \in {"uploadError", "dbError"}
            => \E row \in BagToSet(access_logs) :
                 /\ row.access_type = "upload"
                 /\ row.access_status = "failure"
                 /\ row.failure_reason # Null

\* C18: the step that creates a FileRecord creates it with file_status =
\* active, access_count = 0 and otp_expires_at = creation time + the
\* requested validity, the creation time being the clock when the handler
\* issued the insert (the record's otp_created_at).
C18_InitialRecord ==
  [][/\ (up.pc = "idle" /\ up'.pc = "insert")
          => /\ up'.otpCreatedAt = now
             /\ up'.otpExpiresAt = now + up'.otpValidityMinutes
     /\ \A f \in FileIds :
          (files[f] = NoFile /\ files'[f] # NoFile)
            => /\ files'[f].file_status = "active"
               /\ files'[f].access_count = 0
               /\ files'[f].otp_created_at = up.otpCreatedAt
               /\ files'[f].otp_expires_at =
                    files'[f].otp_created_at + up.otpValidityMinutes]_vars

\* C18 witness: a FileRecord just created (the handler is at its upload
\* log), the insert having landed a tick after it was issued.
C18_Witness ==
  /\ up.pc = "log"
  /\ files[up.fileId] # NoFile
  /\ files[up.fileId].file_status = "active"
  /\ files[up.fileId].access_count = 0
  /\ files[up.fileId].otp_expires_at = files[up.fileId].otp_created_at + up.otpValidityMinutes
  /\ files[up.fileId].upload_timestamp > files[up.fileId].otp_created_at

\* C19: once a FileRecord exists, no step changes any of its columns but
\* access_count, last_access_timestamp and file_status: the key material
\* and the OTP material (encrypted_aes_key, key_salt, file_iv, key_iv,
\* otp_hash, original_file_hash, otp_expires_at, max_access_attempts) stay as
\* created.
C19_KeyMaterialFrame ==
  [][\A f \in FileIds :
       files[f] # NoFile
         => files'[f] = [files[f] EXCEPT
                           !.access_count = files'[f].access_count,
                           !.last_access_timestamp = files'[f].last_access_timestamp,
                           !.file_status = files'[f].file_status]]_vars

\* C19 witness: the record was downloaded from and then deleted by its
\* owner; all but the three columns is as the upload wrote it.
C19_Witness ==
  \E f \in FileIds :
    /\ files[f] # NoFile /\ up.fileId = f
    /\ files[f].access_count > 0
    /\ files[f].last_access_timestamp >= 0
    /\ files[f].file_status = "deleted"
    /\ files[f].encrypted_aes_key = Btoa(WrappedKey(up))
    /\ files[f].key_salt = Btoa(FreshSalt(f))
    /\ files[f].file_iv = Btoa(FreshFileIv(f))
    /\ files[f].key_iv = Btoa(FreshKeyIv(f))
    /\ files[f].otp_hash = HashSha256Hex(up.otp)
    /\ files[f].original_file_hash = HashSha256Hex(up.fileBuffer)
    /\ files[f].otp_expires_at = up.otpExpiresAt
    /\ files[f].max_access_attempts = DefaultMaxAccessAttempts

\* The text columns of a files row, the base64 columns decoded, the wrapped
\* key even unwrapped.
FileStrings(row) ==
  {row.id, row.user_id, row.original_filename, row.encrypted_filename, row.file_mimetype,
   Atob(row.key_salt), Atob(row.file_iv), Atob(row.key_iv), Atob(row.encrypted_aes_key).iv,
   Atob(row.encrypted_aes_key).data, row.recipient_email, row.file_description,
   row.file_status}

\* The text columns of an access_logs row.
LogStrings(row) ==
  {row.file_id, row.user_id, row.access_type, row.access_status, row.failure_reason}

\* C20: the plaintext OTP is never persisted: no files row, access_logs row
\* or blob holds it (the files row holds its SHA-256 hash); it leaves the
\* upload only in the send-otp-email invocation and, only when
\* INCLUDE_OTP_IN_RESPONSE is "true", in the 200 response.
C20_OtpNeverPersisted ==
  up.otp # Null
    => /\ \A f \in FileIds :
            files[f] # NoFile
              => /\ up.otp \notin FileStrings(files[f])
                 /\ files[f].otp_hash = HashSha256Hex(up.otp)
       /\ \A row \in BagToSet(access_logs) : up.otp \notin LogStrings(row)
       /\ \A p \in Paths : up.otp \notin {blobs[p].key, blobs[p].iv, blobs[p].data}
       /\ up.response.otp # Null
            => (env.INCLUDE_OTP_IN_RESPONSE /\ up.response.success)
       /\ env.INCLUDE_OTP_IN_RESPONSE
            => (up.response.success => up.response.otp = up.otp)
       /\ \A email \in emails : files[email.fileId] # NoFile /\ email.otp = up.otp

\* C20 witness: a debugging deployment answered with the OTP; the files
\* row, the blob and the upload's log row are stored, the e-mail was handed
\* over.
C20_Witness ==
  /\ up.pc = "done" /\ up.response.success
  /\ env.INCLUDE_OTP_IN_RESPONSE
  /\ up.response.otp = up.otp
  /\ files[up.fileId] # NoFile
  /\ UploadedBlob # NoBlob
  /\ emails # {}
  /\ access_logs # EmptyBag

\* The fields the public file-info read may expose: filename, size, upload
\* timestamp, OTP expiry, attempt counters, description, status.
PublicFields ==
  {"original_filename", "file_size", "upload_timestamp", "otp_expires_at",
   "max_access_attempts", "access_count", "file_description", "file_status"}

\* The row with its key material and hashes blanked.
Blind(row) ==
  IF row = NoFile THEN NoFile
  ELSE [row EXCEPT !.encrypted_aes_key = Btoa(NoBlob), !.key_salt = Btoa(Null),
                   !.file_iv = Btoa(Null), !.key_iv = Btoa(Null),
                   !.otp_hash = HashSha256Hex(Null),
                   !.original_file_hash = HashSha256Hex(Null)]

\* C21: a file-info response is the one the same request gets on the row
\* with key material and hashes blanked (it does not depend on them), and a
\* 200 body has the public fields and no other.
C21_PublicInfoOnly ==
  [][info' # info
       => /\ info' = FileInfoResponse(info'.fileId, Blind(files[info'.fileId]))
          /\ info'.status = 200 => DOMAIN info'.body = PublicFields]_vars

\* C21 witness: the stored original_file_hash was altered, and the file-info
\* response is the one of the row as it was uploaded.
C21_Witness ==
  \E f \in FileIds :
    /\ info.fileId = f /\ info.status = 200
    /\ files[f] # NoFile /\ up.fileId = f
    /\ files[f].original_file_hash # HashSha256Hex(up.fileBuffer)
    /\ info.body = Select([files[f] EXCEPT !.original_file_hash =
                                             HashSha256Hex(up.fileBuffer)], PublicFields)

\* C22: a FileRecord is never physically deleted: a row that exists still
\* exists, with its id, after every step, and a step that makes it deleted
\* changes its file_status and nothing else.
C22_NeverRemoved ==
  [][\A f \in FileIds :
       files[f] # NoFile
         => /\ files'[f] # NoFile
            /\ files'[f].id = files[f].id
            /\ (files'[f].file_status = "deleted" /\ files[f].file_status # "deleted")
                 => files'[f] = [files[f] EXCEPT !.file_status = "deleted"]]_vars

\* C22 witness: the owner deleted the file; the row and the blob are there.
C22_Witness ==
  \E f \in FileIds :
    /\ files[f] # NoFile /\ files[f].id = f
    /\ files[f].file_status = "deleted"
    /\ blobs[files[f].encrypted_filename] # NoBlob

\* C23: access_logs is append-only: every step keeps every row it held
\* (with its multiplicity) and adds at most one.
C23_AppendOnly ==
  [][/\ access_logs \sqsubseteq access_logs'
     /\ BagCardinality(access_logs') <= BagCardinality(access_logs) + 1]_vars

\* C23 witness: the upload's row and a verify-and-decrypt row are in the
\* log after a file-info read and the owner's delete.
C23_Witness ==
  \E f \in FileIds :
    /\ BagIn(LogEntry(f, UserId, "upload", "success", Null), access_logs)
    /\ AccessRows >= 1
    /\ info.fileId = f
    /\ files[f] # NoFile /\ files[f].file_status = "deleted"

\* C24: round trip: a request with the OTP generated at upload, before
\* expiry and with attempts remaining, on an untampered store, passes the
\* gates, decrypts to the uploaded plaintext, whose hash is the stored
\* original_file_hash, and its response carries exactly that plaintext.
C24_RoundTrip ==
  [][\A r \in Slots :
       /\ (req[r].pc = "fetched" /\ Steps(r) /\ Live(r)
           /\ req[r].file.access_count < req[r].file.max_access_attempts
           /\ req[r].otp = CorrectOtp(req[r].fileId))
          => req'[r].pc = "download"
       /\ (req[r].pc = "download" /\ Steps(r))
          => /\ req'[r].pc = "update"
             /\ req'[r].decryptedArray = up.fileBuffer
             /\ HashSha256Hex(req'[r].decryptedArray) = req[r].file.original_file_hash
       /\ (req[r].pc = "log_success" /\ Steps(r))
          => /\ req'[r].response.status = 200
             /\ Atob(req'[r].response.fileData) = up.fileBuffer]_vars

\* C25: tamper detection, for a request with the correct OTP: an altered
\* wrapped key fails the unwrap, an altered ciphertext fails the decryption,
\* an altered original_file_hash goes to the integrity exit; each leaves the
\* files row as it is (no increment), and no 200 response carries anything
\* but the uploaded plaintext.
C25_TamperDetected ==
  [][\A r \in Slots :
       /\ (req[r].pc = "fetched" /\ Steps(r) /\ Live(r)
           /\ req[r].file.access_count < req[r].file.max_access_attempts
           /\ req[r].otp = CorrectOtp(req[r].fileId)
           /\ ~Atob(req[r].file.encrypted_aes_key).intact)
          => /\ req'[r].pc = "done"
             /\ req'[r].response = ErrorResponse(OperationError)
             /\ files' = files
       /\ (req[r].pc = "download" /\ Steps(r)
           /\ blobs[req[r].file.encrypted_filename] # NoBlob
           /\ ~blobs[req[r].file.encrypted_filename].intact)
          => /\ req'[r].pc = "done"
             /\ req'[r].response = ErrorResponse(OperationError)
             /\ files' = files
       /\ (req[r].pc = "download" /\ Steps(r)
           /\ blobs[req[r].file.encrypted_filename] # NoBlob
           /\ blobs[req[r].file.encrypted_filename].intact
           /\ req[r].file.original_file_hash # HashSha256Hex(up.fileBuffer))
          => /\ req'[r].pc = "log_integrity"
             /\ files' = files
       /\ (req[r].pc = "log_integrity" /\ Steps(r))
          => /\ req'[r].response = ErrorResponse(
                   "File integrity check failed - possible tampering detected")
             /\ files' = files
       /\ req'[r].response.status = 200
          => Atob(req'[r].response.fileData) = up.fileBuffer]_vars

\* C25 witness: the stored ciphertext was altered; a request with the
\* correct OTP failed at the decryption, access_count is still 0 and no
\* success is logged.
C25_Witness ==
  \E r \in Slots, f \in FileIds :
    /\ req[r].pc = "done" /\ req[r].fileId = f
    /\ req[r].response = ErrorResponse(OperationError)
    /\ req[r].otp = CorrectOtp(f)
    /\ blobs[files[f].encrypted_filename] # NoBlob
    /\ ~blobs[files[f].encrypted_filename].intact
    /\ Atob(files[f].encrypted_aes_key).intact
    /\ files[f].access_count = 0
    /\ Successes(f) = 0

\* C26: a step of a request writes file_status only at the expiry exit,
\* where it writes expired; every other step of a request, and so every
\* other failing exit, leaves every file_status as it is.
C26_StatusFrame ==
  [][\A r \in Slots :
       Steps(r)
         => /\ req[r].pc # "expire"
                 => \A f \in FileIds :
                      files[f] # NoFile => files'[f].file_status = files[f].file_status
            /\ req[r].pc = "expire"
                 => files'[req[r].fileId].file_status = "expired"]_vars

\* C26 witness: one request failed on a wrong OTP and one at the integrity
\* check; the file is still active.
C26_Witness ==
  \E r1, r2 \in Slots, f \in FileIds :
    /\ req[r1].pc = "done" /\ req[r1].fileId = f
    /\ req[r1].response = ErrorResponse("Invalid OTP")
    /\ req[r2].pc = "done" /\ req[r2].fileId = f
    /\ req[r2].response =
         ErrorResponse("File integrity check failed - possible tampering detected")
    /\ files[f].file_status = "active"

\* C27: file_status becomes expired only in the expiry write of a request:
\* not by the passage of time, not by the upload, not by the file-info
\* read, each of which leaves every file_status as it is.
C27_LazyExpiry ==
  [][/\ \A f \in FileIds :
          (files[f] # NoFile /\ files[f].file_status # "expired"
           /\ files'[f].file_status = "expired")
            => \E r \in Slots : req[r].pc = "expire" /\ req[r].fileId = f /\ Steps(r)
     /\ (now' # now \/ info' # info \/ up' # up)
          => \A f \in FileIds :
               files[f] # NoFile => files'[f].file_status = files[f].file_status]_vars

\* C27 witness: the OTP of a file nobody has requested is over, the file is
\* still active, and a file-info read after the expiry was answered with
\* the active row.
C27_Witness ==
  \E f \in FileIds :
    /\ files[f] # NoFile
    /\ files[f].otp_expires_at < now
    /\ files[f].file_status = "active"
    /\ \A r \in Slots : req[r].pc = "idle"
    /\ info.fileId = f /\ info.status = 200
    /\ info.body.file_status = "active"
    /\ info.body.otp_expires_at < now

\* The upload of the scenario: "hello test", valid for 10 minutes, with the
\* default of 3 attempts.
Scenario(f) ==
  /\ files[f] # NoFile /\ up.fileId = f
  /\ up.fileBuffer = "hello test"
  /\ up.otpValidityMinutes = 10
  /\ files[f].max_access_attempts = 3

\* C28: in the scenario, a verification with a wrong code on the fresh file
\* fails "Invalid OTP" and leaves the row (access_count 0) as it is; after
\* two of them a verification with the correct OTP goes through, its update
\* sets access_count = 1 and leaves file_status (one_time_access being set
\* or not), and its response carries the uploaded payload.
C28_Scenario ==
  [][\A r \in Slots :
       (req[r].pc # "idle" /\ req[r].pc # "done" /\ Steps(r) /\ Scenario(req[r].fileId)
        /\ req[r].file.file_status = "active" /\ req[r].file.access_count = 0)
         => LET f == req[r].fileId IN
            /\ (req[r].pc = "fetched" /\ req[r].otp # CorrectOtp(f))
                 => (req'[r].pc = "log_invalid" /\ files' = files)
            /\ req[r].pc = "log_invalid"
                 => /\ req'[r].response = ErrorResponse("Invalid OTP")
                    /\ files' = files
                    /\ InvalidOtpRows(f)' = InvalidOtpRows(f) + 1
            /\ (req[r].pc = "fetched" /\ req[r].otp = CorrectOtp(f)
                 /\ InvalidOtpRows(f) = 2)
                 => req'[r].pc = "download"
            /\ req[r].pc = "download"
                 => (req'[r].pc = "update" /\ req'[r].decryptedArray = "hello test")
            /\ req[r].pc = "update"
                 => /\ files'[f].access_count = 1
                    /\ files'[f].file_status = files[f].file_status
                    /\ files'[f].one_time_access = files[f].one_time_access
            /\ req[r].pc = "log_success"
                 => /\ req'[r].response.status = 200
                    /\ Atob(req'[r].response.fileData) = "hello test"
                    /\ files' = files
                    /\ Successes(f)' = Successes(f) + 1]_vars

\* C28 witness: the scenario was played: two "Invalid OTP" rows, then one
\* success that returned "hello test"; access_count is 1 and the file is
\* still active, with one_time_access set.
C28_Witness ==
  \E r \in Slots, f \in FileIds :
    /\ Scenario(f)
    /\ InFlight = {}
    /\ InvalidOtpRows(f) = 2
    /\ Successes(f) = 1
    /\ req[r].pc = "done" /\ req[r].fileId = f
    /\ req[r].response.status = 200
    /\ req[r].response.fileData = Btoa("hello test")
    /\ files[f].access_count = 1
    /\ files[f].file_status = "active"
    /\ files[f].one_time_access

\* C29: for every value of the random source, the OTP number lies in
\* [100000, 999999] and its string has exactly 6 decimal digits; the OTP of
\* an upload is such a string.
C29_SixDigits ==
  /\ \A k \in RandomValues :
       /\ OtpNumber(k) >= 100000
       /\ OtpNumber(k) <= 999999
       /\ Len(Digits(OtpNumber(k))) = 6
       /\ \A i \in 1..Len(Digits(OtpNumber(k))) : Digits(OtpNumber(k))[i] \in 0..9
  /\ up.otp # Null
       => \E n \in {OtpNumber(k) : k \in RandomValues} :
            /\ up.otp = NumberToString(n)
            /\ n \in 100000..999999

\* C29 witness: the largest value of the random source gave the OTP
\* 999999, which the upload stored hashed.
C29_Witness ==
  /\ up.otp = generateOtp(RandomResolution - 1)
  /\ up.otp = "999999"
  /\ files[up.fileId] # NoFile
  /\ files[up.fileId].otp_hash = HashSha256Hex("999999")

\* Random sources of cryptographic strength in the runtime.
StrongSources == {"crypto.getRandomValues", "crypto.subtle.generateKey", "crypto.randomUUID"}

\* C30: the OTP of an upload comes from a cryptographically strong random
\* source.
C30_StrongRandom ==
  up.otp # Null => up.otpSource \in StrongSources

\* C31: the gates are evaluated in the order existence, status, expiry,
\* attempts, OTP, and the first that fails decides: no row gives "File not
\* found"; a copy that is not active gives "File is <status>" whatever the
\* clock; an active copy past otp_expires_at goes to the expiry exit
\* (file_status = expired, "OTP has expired") whatever the attempts and the
\* OTP; an exhausted, unexpired copy gives "Maximum access attempts reached"
\* whatever the OTP, with no row added to access_logs; only then a wrong OTP
\* gives the Invalid OTP exit.
C31_GateOrder ==
  [][\A r \in Slots :
       /\ (req[r].pc \in {"idle", "done"} /\ Steps(r) /\ files[req'[r].fileId] = NoFile)
          => req'[r].response = ErrorResponse("File not found")
       /\ (req[r].pc = "fetched" /\ Steps(r) /\ req[r].file.file_status # "active")
          => /\ req'[r].response = ErrorResponse("File is " \o req[r].file.file_status)
             /\ files' = files /\ access_logs' = access_logs
       /\ (req[r].pc = "fetched" /\ Steps(r) /\ req[r].file.file_status = "active"
           /\ req[r].file.otp_expires_at < now)
          => /\ req'[r].pc = "expire"
             /\ access_logs' = access_logs
       /\ (req[r].pc = "expire" /\ Steps(r))
          => /\ req'[r].response = ErrorResponse("OTP has expired")
             /\ files'[req[r].fileId].file_status = "expired"
             /\ access_logs' = access_logs
       /\ (req[r].pc = "fetched" /\ Steps(r) /\ Live(r)
           /\ req[r].file.access_count >= req[r].file.max_access_attempts)
          => /\ req'[r].response = ErrorResponse("Maximum access attempts reached")
             /\ files' = files /\ access_logs' = access_logs
       /\ (req[r].pc = "fetched" /\ Steps(r) /\ Live(r)
           /\ req[r].file.access_count < req[r].file.max_access_attempts
           /\ req[r].otp # CorrectOtp(req[r].fileId))
          => req'[r].pc = "log_invalid"]_vars

\* C31 witness: on an exhausted file a wrong OTP was answered "Maximum
\* access attempts reached" before the expiry and "OTP has expired" after
\* it, and no otp_verify/failure row was written.
C31_Witness ==
  \E r1, r2 \in Slots, f \in FileIds :
    /\ files[f] # NoFile
    /\ req[r1].pc = "done" /\ req[r1].fileId = f /\ req[r1].otp # CorrectOtp(f)
    /\ req[r1].response = ErrorResponse("Maximum access attempts reached")
    /\ req[r2].pc = "done" /\ req[r2].fileId = f /\ req[r2].otp # CorrectOtp(f)
    /\ req[r2].response = ErrorResponse("OTP has expired")
    /\ files[f].access_count >= files[f].max_access_attempts
    /\ files[f].file_status = "expired"
    /\ InvalidOtpRows(f) = 0

\* C32: once a file's status is deleted or revoked, no request returns
\* plaintext or commits a download/success for it, a request that fetched
\* the row while it was active included.
C32_NoAccessAfterDelete ==
  [][\A r \in InFlight :
       (Steps(r) /\ files[req[r].fileId].file_status \in {"deleted", "revoked"})
         => /\ Successes(req[r].fileId)' = Successes(req[r].fileId)
            /\ files'[req[r].fileId].access_count = files[req[r].fileId].access_count
            /\ req'[r].response.status # 200]_vars

\* C33: a request whose final update the store rejected answers with a
\* failure and no plaintext, and commits no download/success: plaintext is
\* returned only when the increment was applied.
C33_IncrementApplied ==
  \A r \in Slots :
    req[r].updateRejected
      => /\ req[r].response.status # 200
         /\ req[r].response.fileData = NoResponse.fileData

\* C34: the stored access_count of a file never decreases, whatever the
\* interleaving of the requests.
C34_CountMonotone ==
  [][\A f \in FileIds :
       files[f] # NoFile => files'[f].access_count >= files[f].access_count]_vars

\* C35: with no request in flight, the access_count of every file equals
\* the number of its download/success rows in access_logs.
C35_AuditConsistency ==
  InFlight = {}
    => \A f \in FileIds : files[f] # NoFile => files[f].access_count = Successes(f)

\* The answers of the status gate.
NotAccessible == {ErrorResponse("File is " \o st) : st \in {"expired", "revoked", "deleted"}}

\* A row that is not active is not active after the step.
StaysInactive ==
  \A f \in FileIds :
    (files[f] # NoFile /\ files[f].file_status # "active")
      => (files'[f] # NoFile /\ files'[f].file_status # "active")

\* A step of a request on a file that the status gate has refused does not
\* end in a 200 response.
RefusedForGood ==
  \A r, r2 \in Slots :
    (Steps(r) /\ req[r2].pc = "done" /\ req[r2].response \in NotAccessible
     /\ req[r2].fileId = req'[r].fileId)
      => req'[r].response.status # 200

\* C36: no step sets file_status back to active: a row that has left
\* active never becomes active again; and once a request on a file was
\* refused by the status gate, no request returns that file's plaintext.
C36_NeverActiveAgain == [][StaysInactive /\ RefusedForGood]_vars

\* The first half of C36 alone: it holds.
StatusNeverReactivated == [][StaysInactive]_vars

\* C37: the OTP goes to the notifier only after the blob write and the
\* FileRecord insert have succeeded: every send-otp-email invocation is for
\* a file id that has its FileRecord and its blob, the step that issues it
\* is the successful insert, and an upload that failed has issued none.
C37_NotifyAfterInsert ==
  [][/\ \A e \in emails' :
          /\ files'[e.fileId] # NoFile
          /\ blobs'[EncryptedFileName(UserId, e.fileId)] # NoBlob
          /\ files'[e.fileId].otp_hash = HashSha256Hex(e.otp)
     /\ emails' # emails
          => /\ up.pc = "insert"
             /\ blobs[EncryptedFileName(UserId, up.fileId)] # NoBlob
             /\ files[up.fileId] = NoFile /\ files'[up.fileId] # NoFile
     /\ (up'.pc = "done" /\ up'.response.status = 400) => emails' = {}
     /\ \A s \in settled' : s.email \in emails']_vars

\* C37 witness: the e-mail with the OTP was sent while the upload was at its
\* audit row, after the blob and the FileRecord were stored.
C37_Witness ==
  /\ up.pc = "log"
  /\ OtpEmail(up) \in emails
  /\ \E s \in settled : s.email = OtpEmail(up) /\ s.sent
  /\ files[up.fileId] = FileRow(up)
  /\ UploadedBlob = EncryptedFile(up)

\* What a finished upload has added to the owner's storage_used.
Stored(u) == IF u.pc = "done" /\ u.response.success THEN u.fileSize ELSE 0

\* C38: when the uploads of an owner have returned, concurrent ones
\* included, storage_used is its initial value plus the fileSize of every
\* successful upload.
C38_StorageUsed ==
  (up.pc \in {"idle", "done"} /\ peer.pc \in {"idle", "done"})
    => storage_used = 0 + Stored(up) + Stored(peer)

\* The messages of the failure exits.
Failures ==
  NotAccessible \cup
  {ErrorResponse(m) : m \in {"File not found", "OTP has expired",
                             "Maximum access attempts reached", "Invalid OTP", OperationError,
                             "Failed to download encrypted file",
                             "File integrity check failed - possible tampering detected"}}

\* C39: every request terminates with exactly one outcome, the 200 response
\* or one failure, also when another request runs on the same file: a
\* request in flight can always take its next step (it waits for no other
\* request), it never goes back to an earlier step, and it reaches its
\* response.
C39_Terminates ==
  /\ [](\A r \in InFlight : ENABLED Run(r))
  /\ [](\A r \in Slots : req[r].pc = "done"
           => (req[r].response.status = 200 \/ req[r].response \in Failures))
  /\ \A r \in Slots : (req[r].pc \notin {"idle", "done"}) ~> (req[r].pc = "done")

\* C39 witness: two requests on the same file that ran at the same time
\* have both returned (both read access_count = 0, both succeeded).
C39_Witness ==
  \E f \in FileIds :
    /\ files[f] # NoFile /\ files[f].access_count = 1
    /\ \A r \in Slots :
         req[r].pc = "done" /\ req[r].fileId = f /\ req[r].response.status = 200

====
